---------------------------- MODULE Spec2Model ----------------------------
(***************************************************************************)
(* nu801.c: userspace driver for the NU801 3-channel 16-bit PWM LED        *)
(* controller.  The model follows main(), register_uled(),                 *)
(* register_gpio(), gpio_set()/gpio_commit(), handle_leds(), teardown()    *)
(* and fatal_error_signal() statement by statement.  The process is        *)
(* single threaded; the only interleaving is a signal handler pushed on    *)
(* top of the interrupted code.  The steps of the model are the points     *)
(* between two gpio_commit() calls and between the statements of           *)
(* teardown() and fatal_error_signal().                                    *)
(*                                                                         *)
(* Outside the program: the kernel's GPIO lines (wire), the NU801 chip     *)
(* (shift register and output latch), the uleds descriptors, and the       *)
(* signals the environment sends.  The program is run in the foreground    *)
(* (-F) without a pidfile; daemonizing and privilege drop are not          *)
(* modelled.  signal() has BSD semantics (glibc with _GNU_SOURCE, musl):   *)
(* the handler stays installed and its own signal is blocked while it      *)
(* runs.  Descriptors 0..2 are open at start, so every new descriptor      *)
(* is >= 3.                                                                *)
(***************************************************************************)
EXTENDS Integers, Sequences, FiniteSets, TLC

(* ------------------------------ bounds -------------------------------- *)

\* successful wake-ups of select() the environment produces in one run
MaxWakeups == 1

\* brightness integers other processes write to a uleds device
BrightnessInputs == {0, 128, 255}

\* the same with values outside 0..255
WideBrightnessInputs == {-256, -1, 0, 1, 128, 255, 256, 257, 511}

\* the narrow input set used where two whole frames are compared
FewBrightnessInputs == {0, 255}

\* the fatal signals the environment sends (two of the eight installed)
Signals == {"SIGTERM", "SIGINT"}

(* ------------------------- program constants --------------------------- *)

NU801_CKI == 0
NU801_SDI == 1
NU801_LEI == 2

\* ~0 as stored in the unsigned .lei field: "no latch line"
NOT0 == -1

EINVAL == 22
EXIT_FAILURE == 1
EXIT_SUCCESS == 0

\* a NULL char pointer of the catalog
NULL == "<NULL>"

\* bits of one PWM word: bit runs from 0x8000 down to 1
MSB == 32768

\* the chip: 3 channels of 16 bits
CHIP_BITS == 48

\* ARRAY_SIZE(leds)
NLEDS == 3

\* first descriptor open() can return
FIRST_FD == 3

supported_hardware ==
    << [id |-> "cisco-mx100-hw", board |-> "mx100",
        cki |-> 41, sdi |-> 6, lei |-> 5, ndelay |-> 150,
        colors |-> <<"blue", "green", "red">>,
        functions |-> <<"tricolor", "tricolor", "tricolor">>],
       [id |-> "meraki,z1", board |-> NULL,
        cki |-> 14, sdi |-> 15, lei |-> NOT0, ndelay |-> 500,
        colors |-> <<"blue", "green", "red">>,
        functions |-> <<"tricolor", "tricolor", "tricolor">>],
       [id |-> "meraki,mr18", board |-> NULL,
        cki |-> 11, sdi |-> 12, lei |-> NOT0, ndelay |-> 500,
        colors |-> <<"red", "green", "blue">>,
        functions |-> <<"tricolor", "tricolor", "tricolor">>],
       [id |-> NULL, board |-> NULL,
        cki |-> 0, sdi |-> 0, lei |-> 0, ndelay |-> 0,
        colors |-> <<NULL, NULL, NULL>>,
        functions |-> <<NULL, NULL, NULL>>] >>

\* the command lines tried: no device-id, the three ids, a prefix of an id,
\* an id with a suffix, an unrelated word
NoArg == "<none>"
Args == {NoArg, "cisco-mx100-hw", "meraki,z1", "meraki,mr18",
         "meraki,z", "meraki,z1x", "nosuch"}

(* ------------------------------ helpers -------------------------------- *)

\* (~0 ^ dev->gpio.num.lei) != 0
HasLatch(d) == d.lei # NOT0

\* num_lines = ((lines[NU801_LEI] ^ ~0) ? 3 : 2)
NumLines(d) == IF HasLatch(d) THEN 3 ELSE 2

\* hwval & bit, for bit a power of two
BitAnd(hwval, bit) == IF (hwval \div bit) % 2 = 1 THEN bit ELSE 0

\* !!x
Bool01(x) == IF x # 0 THEN 1 ELSE 0

\* hwval = led->brightness << 8, stored in a uint16_t
\* (a variant that clamps to 0..255 instead of truncating)
hw_word_clamp(brightness) ==
    IF brightness < 0 THEN 0
    ELSE IF brightness > 255 THEN 65280 ELSE brightness * 256
hw_word(brightness) == (brightness * 256) % 65536

Zeros(n) == [k \in 1..n |-> 0]

VARIABLES
    fatal_error_in_progress,  \* sig_atomic_t flag
    values,      \* struct gpio_v2_line_values: [mask, bits]
    leds,        \* leds[0..2]: [fd, brightness]
    dev,         \* index into supported_hardware; 0 = not yet set
    num_leds,
    gpio_fd,
    ret,         \* main's ret
    rfds,        \* main's fd_set
    argv,        \* the positional argument(s) after the options
    stack,       \* activation records: main at 1, signal handlers above
    proc,        \* [state, status, sig]: running / exited / killed
    sigs,        \* [disp: signal -> disposition, pending: set of signals]
    hw,          \* GPIO lines and chip outside the process
    os,          \* descriptors and select() wake-ups
    hist         \* what the run has done so far (observation only)

vars == << fatal_error_in_progress, values, leds, dev, num_leds, gpio_fd,
           ret, rfds, argv, stack, proc, sigs, hw, os, hist >>

(* -------------------- the state as one record ------------------------- *)

\* The statements of handle_leds(), teardown() and fatal_error_signal()
\* are written as functions from state to state, so that the same
\* definition serves a step of main and a step of a signal handler.
St ==
    [fatal_error_in_progress |-> fatal_error_in_progress, values |-> values,
     leds |-> leds, dev |-> dev, num_leds |-> num_leds, gpio_fd |-> gpio_fd,
     ret |-> ret, rfds |-> rfds, argv |-> argv, stack |-> stack,
     proc |-> proc, sigs |-> sigs, hw |-> hw, os |-> os, hist |-> hist]

Install(s) ==
    /\ fatal_error_in_progress' = s.fatal_error_in_progress
    /\ values' = s.values
    /\ leds' = s.leds
    /\ dev' = s.dev
    /\ num_leds' = s.num_leds
    /\ gpio_fd' = s.gpio_fd
    /\ ret' = s.ret
    /\ rfds' = s.rfds
    /\ argv' = s.argv
    /\ stack' = s.stack
    /\ proc' = s.proc
    /\ sigs' = s.sigs
    /\ hw' = s.hw
    /\ os' = s.os
    /\ hist' = s.hist

Top(s) == s.stack[Len(s.stack)]

SetTop(s, a) == [s EXCEPT !.stack[Len(s.stack)] = a]

SetPc(s, pc) == [s EXCEPT !.stack[Len(s.stack)].pc = pc]

Dev(s) == supported_hardware[s.dev]

\* an activation record: fn is the outermost function of the activation,
\* td says whether it is inside teardown(), mi is main's i, i/bit/hwval
\* are handle_leds()'s locals and k is teardown()'s second loop index
Activation(fn, sig, pc) ==
    [fn |-> fn, sig |-> sig, pc |-> pc, td |-> FALSE, mi |-> 0,
     i |-> 0, bit |-> 0, hwval |-> 0, k |-> 0]

(* ------------------------------ Bus Driver ----------------------------- *)

\* gpio_set(): gpiotools_assign_bit(&values.bits, gpio, state)
gpio_set(s, gpio, state) == [s EXCEPT !.values.bits[gpio] = state]

\* What the chip does when the lines change from old to new: a rising
\* clock shifts the data line into the shift register, a rising latch line
\* copies the shift register to the outputs.
ChipSees(h, new) ==
    LET shifted == IF h.wire[NU801_CKI] = 0 /\ new[NU801_CKI] = 1
                   THEN Tail(h.reg) \o << new[NU801_SDI] >>
                   ELSE h.reg
        latched == IF h.wire[NU801_LEI] = 0 /\ new[NU801_LEI] = 1
                   THEN shifted
                   ELSE h.latched
    IN  [h EXCEPT !.wire = new, !.reg = shifted, !.latched = latched]

\* the write of gpiotools_set_values() succeeds on the live line request
CommitOk(s) == s.hw.held = "held" /\ s.gpio_fd = s.hw.fd /\ ~s.hw.revoked

\* gpio_commit(): gpiotools_set_values(gpio_fd, &values); the result of
\* the call is not looked at
gpio_commit(s) ==
    LET ok  == CommitOk(s)
        new == [l \in 0..2 |-> IF l \in s.values.mask
                               THEN s.values.bits[l] ELSE s.hw.wire[l]]
        ev  == [op |-> "commit", cki |-> s.values.bits[NU801_CKI],
                sdi |-> s.values.bits[NU801_SDI],
                lei |-> s.values.bits[NU801_LEI], ok |-> ok]
        h1  == IF ok THEN ChipSees(s.hw, new) ELSE s.hw
        h2  == IF s.hw.held = "released"
               THEN [h1 EXCEPT !.late_commits = @ + 1] ELSE h1
    IN  [s EXCEPT !.hw = h2,
                  !.hist.log = Append(@, ev),
                  !.hist.failed = IF ok THEN @ ELSE @ + 1,
                  !.hist.after_td = @ \/ s.hist.td_done > 0]

\* udelay(600) with the clock left high: the chip's pseudo latch
udelay600(s) ==
    [s EXCEPT !.hist.log = Append(@, [op |-> "udelay", usec |-> 600]),
              !.hw.latched = IF s.hw.wire[NU801_CKI] = 1
                             THEN s.hw.reg ELSE @]

(* ----------------------------- Frame Encoder --------------------------- *)

Brightness(s) == [c \in 0..(NLEDS - 1) |-> s.leds[c].brightness]

\* handle_leds() returns to its caller: teardown() goes on with the
\* release of the lines, main's serve loop goes back to select()
HlReturn(s) ==
    LET a == Top(s)
    IN  [SetPc(s, IF a.td THEN "td_release" ELSE "select")
            EXCEPT !.hist.done = TRUE]

\* the head of the loop over the channels, entered with index i
HlChannel(s, i) ==
    IF i < s.num_leds
    THEN SetTop(s, [Top(s) EXCEPT !.i = i, !.bit = MSB, !.pc = "hl_hi",
                                  !.hwval = hw_word(s.leds[i].brightness)])
    ELSE IF HasLatch(Dev(s)) THEN SetTop(s, [Top(s) EXCEPT !.i = i,
                                                           !.pc = "hl_le_hi"])
    ELSE HlReturn(SetTop(s, [Top(s) EXCEPT !.i = i]))

\* the call of handle_leds(dev); the observation starts a new frame log,
\* notes a frame that starts before the previous one has returned and,
\* when hist.track is set, keeps the log of the last frame that returned
HlEnter(s) ==
    LET h  == s.hist
        h1 == [h EXCEPT !.log = << >>, !.vec = Brightness(s),
                        !.done = FALSE, !.frames = @ + 1,
                        !.overlap = @ \/ (h.frames > 0 /\ ~h.done),
                        !.prevLog = IF h.track /\ h.done THEN h.log ELSE @,
                        !.prevVec = IF h.track /\ h.done THEN h.vec ELSE @,
                        !.prevSet = IF h.track /\ h.done THEN TRUE ELSE @]
    IN  HlChannel([s EXCEPT !.hist = h1], 0)

\* lines 286-288: data bit and rising clock, committed together
\* (a variant that sends the least significant bit first)
HlHi_lsb_first(s) ==
    LET a  == Top(s)
        s1 == gpio_set(s, NU801_SDI,
                       Bool01(BitAnd(a.hwval, MSB \div a.bit)))
        s2 == gpio_set(s1, NU801_CKI, 1)
    IN  SetPc(gpio_commit(s2), "hl_lo")
HlHi(s) ==
    LET a  == Top(s)
        s1 == gpio_set(s, NU801_SDI, Bool01(BitAnd(a.hwval, a.bit)))
        s2 == gpio_set(s1, NU801_CKI, 1)
    IN  SetPc(gpio_commit(s2), "hl_lo")

\* line 290: the last bit of the last channel of a 2-wire profile
\* (a variant that holds on the last bit of every channel)
HoldHere_every_word(s) ==
    LET a == Top(s) IN a.bit = 1 /\ ~HasLatch(Dev(s))
HoldHere(s) ==
    LET a == Top(s)
    IN  a.i = s.num_leds - 1 /\ a.bit = 1 /\ ~HasLatch(Dev(s))

\* lines 290-313: the hold, the falling clock, and the loop increments
\* (a variant without the hold)
HlLo_no_hold(s) ==
    LET a  == Top(s)
        s2 == gpio_commit(gpio_set(s, NU801_CKI, 0))
        nb == a.bit \div 2
    IN  IF nb # 0
        THEN SetTop(s2, [a EXCEPT !.bit = nb, !.pc = "hl_hi"])
        ELSE HlChannel(SetTop(s2, [a EXCEPT !.bit = 0]), a.i + 1)
HlLo(s) ==
    LET a  == Top(s)
        s1 == IF HoldHere(s) THEN udelay600(s) ELSE s
        s2 == gpio_commit(gpio_set(s1, NU801_CKI, 0))
        nb == a.bit \div 2
    IN  IF nb # 0
        THEN SetTop(s2, [a EXCEPT !.bit = nb, !.pc = "hl_hi"])
        ELSE HlChannel(SetTop(s2, [a EXCEPT !.bit = 0]), a.i + 1)

\* lines 321-324
\* (a variant that does not raise the latch line)
HlLeHi_no_rise(s) == SetPc(gpio_commit(s), "hl_le_lo")
HlLeHi(s) == SetPc(gpio_commit(gpio_set(s, NU801_LEI, 1)), "hl_le_lo")

\* lines 326-328
\* (a variant that leaves the latch line high)
HlLeLo_no_fall(s) == HlReturn(gpio_commit(s))
HlLeLo(s) == HlReturn(gpio_commit(gpio_set(s, NU801_LEI, 0)))

HlPcs == {"hl_hi", "hl_lo", "hl_le_hi", "hl_le_lo"}

HlStep(s) ==
    LET pc == Top(s).pc
    IN  CASE pc = "hl_hi" -> HlHi(s)
          [] pc = "hl_lo" -> HlLo(s)
          [] pc = "hl_le_hi" -> HlLeHi(s)
          [] pc = "hl_le_lo" -> HlLeLo(s)

(* ------------------------------- teardown ------------------------------ *)

\* teardown() returns: main goes to its return statement, the signal
\* handler to signal(sig, SIG_DFL)
TdReturn(s) ==
    LET a == Top(s)
    IN  [SetTop(s, [a EXCEPT !.td = FALSE,
                             !.pc = IF a.fn = "main" THEN "exit" ELSE "h_dfl"])
            EXCEPT !.hist.td_done = @ + 1]

\* lines 348-354, from index k: skip the entries with fd <= 0, stop at the
\* first one to close
\* (a variant whose loop starts at the second entry)
TdCloseFrom_skip_first(s, k) ==
    LET open == {j \in k..(NLEDS - 1) : j > 0 /\ s.leds[j].fd > 0}
    IN  IF open = {}
        THEN TdReturn(SetTop(s, [Top(s) EXCEPT !.k = NLEDS]))
        ELSE LET j == CHOOSE x \in open : \A y \in open : x <= y
             IN  SetTop(s, [Top(s) EXCEPT !.k = j, !.pc = "td_close"])
TdCloseFrom(s, k) ==
    LET open == {j \in k..(NLEDS - 1) : s.leds[j].fd > 0}
    IN  IF open = {}
        THEN TdReturn(SetTop(s, [Top(s) EXCEPT !.k = NLEDS]))
        ELSE LET j == CHOOSE x \in open : \A y \in open : x <= y
             IN  SetTop(s, [Top(s) EXCEPT !.k = j, !.pc = "td_close"])

\* teardown() is entered; the observation counts the executions, notes
\* one that starts while another activation is inside teardown(), and
\* drops the values read in the last wake-up
TdBegin(s) ==
    [SetTop(s, [Top(s) EXCEPT !.td = TRUE])
        EXCEPT !.hist.td_started = @ + 1,
               !.hist.got = << >>,
               !.hist.td_by_handler = IF Top(s).fn = "main" THEN @ ELSE @ + 1,
               !.hist.td_nested = @ \/ (\E n \in 1..(Len(s.stack) - 1) :
                                           s.stack[n].td)]

\* lines 335-341: the call of teardown() up to the call of handle_leds()
TdEnter(s) ==
    LET s1 == TdBegin(s)
        off == [c \in 0..(NLEDS - 1) |->
                   IF c < s.num_leds
                   THEN [s.leds[c] EXCEPT !.brightness = 0] ELSE s.leds[c]]
    IN  IF s1.gpio_fd > 0
        THEN HlEnter([s1 EXCEPT !.leds = off])
        ELSE TdCloseFrom(s1, 0)

\* line 344: gpiotools_release_line(gpio_fd) closes the descriptor
TdRelease(s) ==
    LET live == s.hw.held = "held" /\ s.gpio_fd = s.hw.fd
        h    == [s.hw EXCEPT !.n_release = @ + 1,
                             !.held = IF live THEN "released" ELSE @]
    IN  SetPc([s EXCEPT !.hw = h,
                        !.os.open = IF live THEN @ \ {s.gpio_fd} ELSE @],
              "td_clear")

\* line 345
TdClear(s) == TdCloseFrom([s EXCEPT !.gpio_fd = -1], 0)

\* line 351: close(leds[k].fd)
TdClose(s) ==
    LET a == Top(s)
    IN  SetPc([s EXCEPT !.os.open = @ \ {s.leds[a.k].fd},
                        !.os.closes = Append(@, s.leds[a.k].fd)],
              "td_mark")

\* line 352: leds[k].fd = -1, and on to the next entry
TdMark(s) ==
    LET a == Top(s)
    IN  TdCloseFrom([s EXCEPT !.leds[a.k].fd = -1], a.k + 1)

TdPcs == {"td_release", "td_clear", "td_close", "td_mark"}

TdStep(s) ==
    LET pc == Top(s).pc
    IN  CASE pc = "td_release" -> TdRelease(s)
          [] pc = "td_clear" -> TdClear(s)
          [] pc = "td_close" -> TdClose(s)
          [] pc = "td_mark" -> TdMark(s)

(* --------------------------- fatal_error_signal ------------------------ *)

\* raise(sig) inside the handler of sig: the signal is blocked there, so
\* it is left pending
RaiseBlocked(s, sig) == [s EXCEPT !.sigs.pending = @ \cup {sig}]

\* lines 360-361: if (fatal_error_in_progress) raise(sig); no return
HEnter(s) ==
    SetPc(IF s.fatal_error_in_progress # 0
          THEN RaiseBlocked(s, Top(s).sig) ELSE s,
          "h_flag")

\* lines 363-365: the flag is set and teardown() is called
HFlag(s) == TdEnter([s EXCEPT !.fatal_error_in_progress = 1])

\* line 367: signal(sig, SIG_DFL)
HDfl(s) == SetPc([s EXCEPT !.sigs.disp[Top(s).sig] = "default"], "h_raise")

\* line 368: raise(sig)
HRaise(s) == SetPc(RaiseBlocked(s, Top(s).sig), "h_return")

\* The handler returns and its signal is unblocked.  A pending signal with
\* the default disposition terminates the process.  (A handler never
\* returns with nothing pending: it has raised its own signal.)
HReturn(s) ==
    LET sig == Top(s).sig
    IN  IF sig \in s.sigs.pending /\ s.sigs.disp[sig] = "default"
        THEN [s EXCEPT !.proc = [state |-> "killed", status |-> 0,
                                 sig |-> sig],
                       !.sigs.pending = @ \ {sig}]
        ELSE [s EXCEPT !.stack = SubSeq(@, 1, Len(@) - 1)]

HPcs == {"h_enter", "h_flag", "h_dfl", "h_raise", "h_return"}

HStep(s) ==
    LET pc == Top(s).pc
    IN  CASE pc = "h_enter" -> HEnter(s)
          [] pc = "h_flag" -> HFlag(s)
          [] pc = "h_dfl" -> HDfl(s)
          [] pc = "h_raise" -> HRaise(s)
          [] pc = "h_return" -> HReturn(s)

\* one step of the code that takes no input: handle_leds(), teardown()
\* and fatal_error_signal()
Exec(s) ==
    LET pc == Top(s).pc
    IN  IF pc \in HlPcs THEN HlStep(s)
        ELSE IF pc \in TdPcs THEN TdStep(s)
        ELSE HStep(s)

\* the signals whose handler is running: blocked until it returns
Blocked(s) == {s.stack[n].sig : n \in 2..Len(s.stack)}

(* --------------------------------- main -------------------------------- *)

\* The state at the entry of main() with the command line drawn from A
\* and the content of the chip's registers drawn from C.
\* track switches on the observation of the previous frame's log.
InitChip(A, track, C) ==
    /\ fatal_error_in_progress = 0
    /\ values = [mask |-> {}, bits |-> [l \in 0..2 |-> 0]]
    /\ leds = [c \in 0..(NLEDS - 1) |-> [fd |-> 0, brightness |-> 0]]
    /\ dev = 0
    /\ num_leds = 0
    /\ gpio_fd = 0
    /\ ret = -EINVAL
    /\ rfds = {}
    /\ argv \in A
    /\ stack = << Activation("main", "none", "start") >>
    /\ proc = [state |-> "running", status |-> 0, sig |-> "none"]
    /\ sigs = [disp |-> [g \in Signals |-> "default"], pending |-> {}]
    /\ \E c \in C :
          hw = [wire |-> [l \in 0..2 |-> 0], reg |-> c,
                latched |-> c, held |-> "none", fd |-> 0,
                revoked |-> FALSE, n_release |-> 0, late_commits |-> 0]
    /\ os = [open |-> {}, closes |-> << >>, wakeups |-> 0, ready |-> {}]
    /\ hist = [log |-> << >>, vec |-> [c \in 0..(NLEDS - 1) |-> 0],
               done |-> FALSE, frames |-> 0,
               prevLog |-> << >>, prevVec |-> [c \in 0..(NLEDS - 1) |-> 0],
               prevSet |-> FALSE, td_started |-> 0, td_done |-> 0,
               td_nested |-> FALSE, td_by_handler |-> 0,
               acquired |-> FALSE, after_td |-> FALSE, track |-> track,
               failed |-> 0, reads |-> << >>, failed_read |-> 0,
               got |-> << >>, overlap |-> FALSE, uled_fail |-> "none"]

\* the same with a chip whose registers are clear
InitWith(A, track) == InitChip(A, track, {Zeros(CHIP_BITS)})

Init == InitWith(Args, FALSE)

InMain(pcs) ==
    /\ proc.state = "running"
    /\ Len(stack) = 1
    /\ stack[1].pc \in pcs

\* the lowest descriptor not in use
NewFd(s) ==
    CHOOSE f \in FIRST_FD..(FIRST_FD + NLEDS + 1) :
        /\ f \notin s.os.open
        /\ \A g \in FIRST_FD..(f - 1) : g \in s.os.open

\* usage(): exit(ret ? EXIT_FAILURE : EXIT_SUCCESS)
ExitWith(s, r) ==
    [s EXCEPT !.proc = [state |-> "exited",
                        status |-> IF r # 0 THEN EXIT_FAILURE
                                   ELSE EXIT_SUCCESS,
                        sig |-> "none"]]

\* lines 413-440: the handlers are installed, the options are parsed;
\* without a device-id the program leaves through usage(ret)
Start ==
    /\ InMain({"start"})
    /\ LET s1 == [St EXCEPT !.sigs.disp = [g \in Signals |-> "handler"]]
       IN  IF argv = NoArg
           THEN Install(ExitWith(s1, s1.ret))
           ELSE Install(SetPc(s1, "lookup"))

\* lines 442-445: the first catalog entry whose id strcmp() finds equal,
\* else the sentinel
\* (a variant that compares only as many characters as the argument has)
FindDev_prefix(arg) ==
    IF arg = "meraki,z" THEN 2
    ELSE IF arg \in {supported_hardware[n].id : n \in 1..3}
         THEN CHOOSE n \in 1..3 : supported_hardware[n].id = arg
         ELSE Len(supported_hardware)
FindDev(arg) ==
    LET hits == {n \in 1..Len(supported_hardware) :
                    /\ supported_hardware[n].id # NULL
                    /\ supported_hardware[n].id = arg}
    IN  IF hits = {} THEN Len(supported_hardware)
        ELSE CHOOSE n \in hits : \A m \in hits : n <= m

\* the condition of the loop at lines 457-459
MoreColors(d, i) ==
    /\ i < NLEDS
    /\ d.colors[i + 1] # NULL
    /\ d.functions[i + 1] # NULL

\* the head of the registration loop with index i; at its end num_leds is
\* set and register_gpio() is next
RegLoop(s, i) ==
    IF MoreColors(Dev(s), i)
    THEN SetTop(s, [Top(s) EXCEPT !.mi = i, !.pc = "register_uled"])
    ELSE SetTop([s EXCEPT !.num_leds = i],
                [Top(s) EXCEPT !.mi = i, !.pc = "register_gpio"])

\* lines 442-456
Lookup ==
    /\ InMain({"lookup"})
    /\ LET s1 == [St EXCEPT !.dev = FindDev(argv)]
       IN  IF Dev(s1).id = NULL
           THEN Install(SetPc(s1, "out"))
           ELSE Install(RegLoop([s1 EXCEPT !.rfds = {}], 0))

\* register_uled(), lines 138-167, and its call, lines 461-468
RegisterUled(outcome) ==
    /\ InMain({"register_uled"})
    /\ LET i  == stack[1].mi
           fd == NewFd(St)
       IN  CASE outcome = "open_fail" ->
                  Install(SetPc([St EXCEPT !.leds[i].fd = -1, !.ret = -2,
                                           !.hist.uled_fail = "open"],
                                "out"))
             [] outcome = "write_fail" ->
                  Install(SetPc([St EXCEPT !.leds[i].fd = fd, !.ret = -22,
                                           !.os.open = @ \cup {fd},
                                           !.hist.uled_fail = "write"],
                                "out"))
             [] outcome = "ok" ->
                  Install(RegLoop([St EXCEPT !.leds[i].fd = fd, !.ret = 0,
                                             !.os.open = @ \cup {fd},
                                             !.rfds = @ \cup {fd}],
                                  i + 1))

\* register_gpio(), lines 175-225, and its call, lines 473-477.  lv gives
\* the levels the requested lines have when the kernel hands them over;
\* gpiotools_get_values() reads them into values.bits.
RegisterGpio(outcome, lv) ==
    /\ InMain({"register_gpio"})
    /\ LET n    == NumLines(Dev(St))
           fd   == NewFd(St)
           mask == 0..(n - 1)
           wire == [l \in 0..2 |-> IF l \in mask THEN lv[l] ELSE hw.wire[l]]
           req  == [St EXCEPT !.hw.held = "held", !.hw.fd = fd,
                              !.hw.wire = wire,
                              !.os.open = @ \cup {fd},
                              !.values.mask = mask]
       IN  CASE outcome = "request_fail" ->
                  Install(SetPc([St EXCEPT !.gpio_fd = -1], "out"))
             [] outcome = "get_fail" ->
                  Install(SetPc([req EXCEPT !.gpio_fd = -1], "out"))
             [] outcome = "ok" ->
                  Install(SetPc([req EXCEPT !.gpio_fd = fd,
                                            !.values.bits = wire,
                                            !.hist.acquired = TRUE],
                                "select"))

\* the head of the loop at line 520 with index i; after the last channel
\* handle_leds(dev) is called (line 542)
\* (a variant that calls handle_leds(dev) after the first channel)
ReadLoop_early(s, i) ==
    IF i < 1
    THEN SetTop(s, [Top(s) EXCEPT !.mi = i, !.pc = "read"])
    ELSE HlEnter(SetTop(s, [Top(s) EXCEPT !.mi = i]))
ReadLoop(s, i) ==
    IF i < s.num_leds
    THEN SetTop(s, [Top(s) EXCEPT !.mi = i, !.pc = "read"])
    ELSE HlEnter(SetTop(s, [Top(s) EXCEPT !.mi = i]))

\* line 514-518: select() fails, or reports the descriptors of ready
SelectFail ==
    /\ InMain({"select"})
    /\ Install(SetPc([St EXCEPT !.ret = -1], "out"))

Select(ready) ==
    /\ InMain({"select"})
    /\ os.wakeups < MaxWakeups
    /\ ready # {}
    /\ ready \subseteq rfds
    /\ Install(ReadLoop([St EXCEPT !.rfds = ready,
                                   !.ret = Cardinality(ready),
                                   !.os.wakeups = @ + 1,
                                   !.os.ready = ready,
                                   !.hist.reads = << >>,
                                   !.hist.got = << >>],
                        0))

\* lines 521-535 for a descriptor that is set in rfds, when read()
\* returns 0 bytes ("eof") or fails ("error")
\* (a variant that goes on with the next channel)
ReadFail_go_on(result) ==
    /\ InMain({"read"})
    /\ LET i  == stack[1].mi
           s1 == [St EXCEPT !.hist.reads = Append(@, leds[i].fd),
                            !.hist.failed_read = leds[i].fd]
       IN  /\ leds[i].fd \in rfds
           /\ Install(ReadLoop([s1 EXCEPT !.ret = IF result = "eof" THEN 0
                                                  ELSE -1],
                               i + 1))
ReadFail(result) ==
    /\ InMain({"read"})
    /\ LET i  == stack[1].mi
           s1 == [St EXCEPT !.hist.reads = Append(@, leds[i].fd),
                            !.hist.failed_read = leds[i].fd]
       IN  /\ leds[i].fd \in rfds
           /\ Install(SetPc([s1 EXCEPT !.ret = IF result = "eof" THEN 0
                                               ELSE -1],
                            "out"))

\* lines 521-538 for a descriptor that is set in rfds, when read() gives
\* the brightness b
Read(b) ==
    /\ InMain({"read"})
    /\ LET i  == stack[1].mi
           s1 == [St EXCEPT !.hist.reads = Append(@, leds[i].fd),
                            !.hist.got = Append(@, [led |-> i, val |-> b])]
       IN  /\ leds[i].fd \in rfds
           /\ Install(ReadLoop([s1 EXCEPT !.ret = 4,
                                          !.leds[i].brightness = b,
                                          !.rfds = @ \cup {leds[i].fd}],
                               i + 1))

\* lines 521 and 538 for a descriptor that is not set in rfds
\* (a variant that does not put the descriptor back into rfds)
ReadSkip_no_rearm ==
    /\ InMain({"read"})
    /\ LET i == stack[1].mi
       IN  /\ leds[i].fd \notin rfds
           /\ Install(ReadLoop(St, i + 1))
ReadSkip ==
    /\ InMain({"read"})
    /\ LET i == stack[1].mi
       IN  /\ leds[i].fd \notin rfds
           /\ Install(ReadLoop([St EXCEPT !.rfds = @ \cup {leds[i].fd}],
                               i + 1))

\* handle_leds() called from the serve loop, one commit at a time
HandleLeds ==
    /\ InMain(HlPcs)
    /\ ~stack[1].td
    /\ Install(HlStep(St))

\* out: teardown() is called (line 548)
Out ==
    /\ InMain({"out"})
    /\ Install(TdEnter(St))

\* teardown() called from main, one statement at a time
Teardown ==
    /\ InMain(HlPcs \cup TdPcs)
    /\ stack[1].td
    /\ Install(Exec(St))

\* line 550
Exit ==
    /\ InMain({"exit"})
    /\ Install(ExitWith(St, ret))

(* ------------------------------- signals ------------------------------- *)

\* fatal_error_signal() running on top of the code it interrupted
Handler ==
    /\ proc.state = "running"
    /\ Len(stack) > 1
    /\ Install(Exec(St))

\* The environment sends sig.  A blocked signal stays pending; otherwise
\* the installed handler is entered on top of whatever runs.  The first
\* signal arrives while main is at one of the places in where.
Deliver(sig, where) ==
    /\ proc.state = "running"
    /\ sigs.disp[sig] = "handler"
    /\ IF sig \in Blocked(St)
       THEN /\ sig \notin sigs.pending
            /\ Install([St EXCEPT !.sigs.pending = @ \cup {sig}])
       ELSE /\ Len(stack) > 1 \/ stack[1].pc \in where
            /\ Install([St EXCEPT
                          !.stack = Append(@, Activation("fatal_error_signal",
                                                         sig, "h_enter"))])

\* The environment takes the line request away (the gpiochip goes away):
\* from here on every gpiotools_set_values() fails.
Revoke ==
    /\ proc.state = "running"
    /\ hw.held = "held"
    /\ ~hw.revoked
    /\ Install([St EXCEPT !.hw.revoked = TRUE])

(* ---------------------------- specifications --------------------------- *)

\* select()'s possible answers: any non-empty subset of the watched
\* descriptors, or all of them only, or one of them only
Ready(kind) ==
    CASE kind = "any" -> SUBSET rfds
      [] kind = "all" -> {rfds}
      [] kind = "one" -> {{f} : f \in rfds}

\* the levels the lines have when they are handed over: any, or all low
\* (the kernel drives a requested output line low unless told otherwise)
Levels(wide) ==
    IF wide THEN [0..2 -> {0, 1}] ELSE {[l \in 0..2 |-> 0]}

Outcomes == {"ok", "open_fail", "write_fail"}

GpioOutcomes == {"ok", "request_fail", "get_fail"}

MainPcs == {"start", "lookup", "register_uled", "register_gpio", "select",
            "read", "out", "exit"} \cup HlPcs \cup TdPcs

\* main() with the brightness values B, select()'s answers of the given
\* kind and the initial line levels; the step over a descriptor that is
\* not ready is added where select() can report fewer than all of them
Main(B, kind, wide) ==
    \/ Start
    \/ Lookup
    \/ \E o \in Outcomes : RegisterUled(o)
    \/ \E o \in GpioOutcomes, lv \in Levels(wide) : RegisterGpio(o, lv)
    \/ SelectFail
    \/ \E r \in Ready(kind) : Select(r)
    \/ \E b \in B : Read(b)
    \/ \E r \in {"eof", "error"} : ReadFail(r)
    \/ HandleLeds
    \/ Out
    \/ Teardown
    \/ Exit

\* the dispatcher alone
Next ==
    \/ Main(BrightnessInputs, "any", FALSE)
    \/ ReadSkip

Spec == Init /\ [][Next]_vars

\* the dispatcher with brightness values in and out of range, one
\* channel written per wake-up
NextWide ==
    \/ Main(WideBrightnessInputs, "one", FALSE)
    \/ ReadSkip

SpecWide == Init /\ [][NextWide]_vars

\* the dispatcher with few inputs and any initial line levels, keeping
\* the previous frame's log
InitIdem == InitWith(Args, TRUE)

NextIdem ==
    \/ Main(FewBrightnessInputs, "any", TRUE)
    \/ ReadSkip

SpecIdem == InitIdem /\ [][NextIdem]_vars

\* the dispatcher under one fatal signal, sent at any point and sent again;
\* select() reports every descriptor ready
NextSig ==
    \/ Main({255}, "all", FALSE)
    \/ Handler
    \/ Deliver("SIGTERM", MainPcs)

SpecSig == Init /\ [][NextSig]_vars

\* the dispatcher under two fatal signals, the first one sent while it
\* waits in select()
NextNest ==
    \/ Main({255}, "all", FALSE)
    \/ Handler
    \/ \E sig \in Signals : Deliver(sig, {"select"})

SpecNest == Init /\ [][NextNest]_vars

\* the dispatcher with a line request that can be taken away
NextIo ==
    \/ Main({255}, "all", FALSE)
    \/ Revoke

SpecIo == Init /\ [][NextIo]_vars

\* the dispatcher started on a chip that still holds what an earlier user
\* of the lines (a boot loader, a killed instance) shifted into it
ChipContents == {Zeros(CHIP_BITS), [k \in 1..CHIP_BITS |-> 1]}

InitStale == InitChip(Args, FALSE, ChipContents)

NextStale ==
    \/ Main(FewBrightnessInputs, "any", FALSE)
    \/ ReadSkip

SpecStale == InitStale /\ [][NextStale]_vars

(* ------------------------------- properties ---------------------------- *)

IsCommit(e) == e.op = "commit"

IsHold(e) == e.op = "udelay"

\* the gpio_commit() calls of the frame being encoded, in order
Commits == SelectSeq(hist.log, IsCommit)

\* the data-line levels committed together with a high clock, in order
Pulse(e) == e.op = "commit" /\ e.cki = 1

DataBits ==
    LET pulses == SelectSeq(hist.log, Pulse)
    IN  [k \in 1..Len(pulses) |-> pulses[k].sdi]

\* bits of one frame
FrameBits == 16 * num_leds

\* bit number j (1 = most significant) of the 16-bit word w
WordBit(w, j) == (w \div (2^(16 - j))) % 2

\* the word of channel c as handle_leds() computed it for this frame
FrameWord(c) == hw_word(hist.vec[c])

\* a profile has been selected
Selected == dev \in 1..(Len(supported_hardware) - 1)

\* C1: in every frame the k-th commit has the clock high for odd k and low
\* for even k up to 2*16*num_leds commits, pulse number j carries bit
\* ((j-1) mod 16) from the top of the word of channel (j-1) div 16, so the
\* channels go out in index order, MSB first; a frame that has returned
\* has made exactly 16*num_leds pulses.
C1_MsbFirstInOrder ==
    LET cs == Commits
        db == DataBits
    IN  /\ \A k \in 1..Len(cs) :
              IF k <= 2 * FrameBits
              THEN cs[k].cki = k % 2
              ELSE cs[k].cki = 0
        /\ \A j \in 1..Len(db) :
              /\ j <= FrameBits
              /\ db[j] = WordBit(FrameWord((j - 1) \div 16),
                                 ((j - 1) % 16) + 1)
        /\ hist.done => Len(db) = FrameBits

\* a frame with the three different words 0xFF00, 0x8000, 0x0000 has
\* returned
C1_Witness ==
    /\ hist.done
    /\ num_leds = 3
    /\ {hist.vec[c] : c \in 0..2} = {0, 128, 255}
    /\ Len(DataBits) = 48

\* the 16 bits of channel c on the wire, read as a number
RECURSIVE BitsValue(_, _, _)
BitsValue(bits, from, n) ==
    IF n = 0 THEN 0
    ELSE 2 * BitsValue(bits, from, n - 1) + bits[from + n - 1]

SentWord(c) == BitsValue(DataBits, 16 * c + 1, 16)

\* C2: the word sent for a channel holding b is b*256 for b in 0..255, and
\* (b mod 256)*256 for any other b: the low 8 bits, never clamped.
C2_WordIsLowByteShifted ==
    hist.done =>
        \A c \in 0..(num_leds - 1) :
            LET b == hist.vec[c]
            IN  /\ b \in 0..255 => SentWord(c) = b * 256
                /\ b \notin 0..255 => SentWord(c) = (b % 256) * 256

\* a frame has returned that sent a negative brightness
C2_Witness ==
    /\ hist.done
    /\ \E c \in 0..(num_leds - 1) : hist.vec[c] < 0 /\ SentWord(c) = 65280

\* a frame has returned that sent a brightness above 255
C2_WitnessAbove ==
    /\ hist.done
    /\ \E c \in 0..(num_leds - 1) : hist.vec[c] = 511 /\ SentWord(c) = 65280

\* C3: with no latch line, the only udelay(600) of a frame comes right
\* after the commit that raises the clock for the last bit of the last
\* channel and before the commit that lowers it; a frame that has returned
\* holds exactly one hold and exactly 2*16*num_leds commits, none of them
\* moving the latch line.
C3_OneHoldOnLastBit ==
    (Selected /\ ~HasLatch(supported_hardware[dev])) =>
        /\ \A p \in 1..Len(hist.log) :
              IsHold(hist.log[p]) =>
                  /\ p = 2 * FrameBits
                  /\ IsCommit(hist.log[p - 1]) /\ hist.log[p - 1].cki = 1
                  /\ p < Len(hist.log) =>
                        /\ IsCommit(hist.log[p + 1])
                        /\ hist.log[p + 1].cki = 0
        /\ LET cs == Commits
           IN  /\ \A k \in 1..Len(cs) : cs[k].lei = cs[1].lei
               /\ hist.done => Len(cs) = 2 * FrameBits
        /\ hist.done =>
              /\ Len(hist.log) = 2 * FrameBits + 1
              /\ IsHold(hist.log[2 * FrameBits])

\* a frame of a 2-wire profile has returned
C3_Witness ==
    /\ Selected /\ ~HasLatch(supported_hardware[dev])
    /\ hist.done
    /\ Len(hist.log) = 97

\* C4: with a latch line, no frame holds the clock for 600 us, and a frame
\* that has returned ends, after 2*16*num_leds clock commits the last of
\* which left the clock low, with one commit of the latch line high and
\* one of the latch line low.
C4_LatchPulseNoHold ==
    (Selected /\ HasLatch(supported_hardware[dev])) =>
        /\ \A p \in 1..Len(hist.log) : ~IsHold(hist.log[p])
        /\ hist.done =>
              /\ Len(hist.log) = 2 * FrameBits + 2
              /\ hist.log[2 * FrameBits].cki = 0
              /\ hist.log[2 * FrameBits + 1].cki = 0
              /\ hist.log[2 * FrameBits + 1].lei = 1
              /\ hist.log[2 * FrameBits + 2].cki = 0
              /\ hist.log[2 * FrameBits + 2].lei = 0

\* a frame of the 3-wire profile has returned
C4_Witness ==
    /\ Selected /\ HasLatch(supported_hardware[dev])
    /\ hist.done
    /\ Len(hist.log) = 98

\* the (clock, data, latch) levels of the commits of a frame log
Levels3(log) ==
    [k \in 1..Len(SelectSeq(log, IsCommit)) |->
        << SelectSeq(log, IsCommit)[k].cki, SelectSeq(log, IsCommit)[k].sdi,
           SelectSeq(log, IsCommit)[k].lei >>]

\* C5: a frame that has returned for the same brightness vector as the
\* frame that returned before it committed the same sequence of
\* (clock, data, latch) levels, the first frame after register_gpio()
\* included.
C5_SameVectorSameSequence ==
    (hist.done /\ hist.prevSet /\ hist.prevVec = hist.vec) =>
        Levels3(hist.log) = Levels3(hist.prevLog)

ZeroVec == [c \in 0..(NLEDS - 1) |-> 0]

\* the frame log is a whole frame of the all-zero vector: every pulse
\* carries data 0 and all 16*num_leds pulses are there
ZeroFrame ==
    /\ hist.done
    /\ hist.vec = ZeroVec
    /\ LET db == DataBits
       IN  /\ Len(db) = FrameBits
           /\ \A j \in 1..Len(db) : db[j] = 0

\* C6: once a teardown() has returned, on whatever path, every brightness
\* is 0, the last frame is a whole all-zero frame whose commits reached
\* the lines, no line request is still held, and no gpio_commit() follows.
C6_TeardownAlwaysCommitsZeroFrame ==
    hist.td_done > 0 =>
        /\ \A c \in 0..(NLEDS - 1) : leds[c].brightness = 0
        /\ ZeroFrame
        /\ \A p \in 1..Len(hist.log) :
              IsCommit(hist.log[p]) => hist.log[p].ok
        /\ hw.held # "held"
        /\ ~hist.after_td

\* C7: when the teardown() run by fatal_error_signal() has returned in a
\* process that held the lines, the chip's shift register holds only
\* zeros.
C7_LightsOffAfterSignal ==
    (hist.acquired /\ hist.td_done > 0 /\ hist.td_by_handler > 0) =>
        hw.reg = Zeros(CHIP_BITS)

\* C8: fatal_error_signal() starts teardown() at most once, however many
\* fatal signals arrive.
C8_NoSecondTeardown == hist.td_by_handler <= 1

\* C9: a process that has left through exit()/return of main has a
\* non-zero status (the serve loop has no other way out than a fatal
\* error).
C9_FatalExitNonZero ==
    proc.state = "exited" => proc.status # EXIT_SUCCESS

\* C10: in the serve loop a failed gpio_commit() is the last commit of its
\* frame, and the dispatcher is never back in select() or read() after one.
C10_CommitFailureIsFatal ==
    (proc.state = "running" /\ ~stack[1].td) =>
        /\ \A p \in 1..Len(hist.log) :
              (IsCommit(hist.log[p]) /\ ~hist.log[p].ok) => p = Len(hist.log)
        /\ hist.failed > 0 => stack[1].pc \notin {"select", "read"}

\* C11: once a read() of the serve loop has returned 0 or less, that read
\* is the last read of the run and was made once, main is never again at
\* select() or read(), whatever handle_leds() runs is the one teardown()
\* calls, teardown() has started at most once, and a process that has
\* exited has finished it exactly once.
C11_ReadFailureEndsLoop ==
    hist.failed_read # 0 =>
        /\ hist.reads # << >>
        /\ hist.reads[Len(hist.reads)] = hist.failed_read
        /\ \A p \in 1..(Len(hist.reads) - 1) :
              hist.reads[p] # hist.failed_read
        /\ proc.state = "running" =>
              /\ stack[1].pc \notin {"select", "read"}
              /\ stack[1].pc \in HlPcs => stack[1].td
        /\ hist.td_started <= 1
        /\ proc.state = "exited" => hist.td_started = 1 /\ hist.td_done = 1

\* all three channels were ready, the read of the first one failed, and
\* the process has exited after the teardown frame
C11_Witness ==
    /\ proc.state = "exited"
    /\ hist.failed_read # 0
    /\ Cardinality(os.ready) = 3
    /\ Len(hist.reads) = 1
    /\ hist.frames = 1
    /\ hist.td_done = 1

\* the descriptors of the channels that are still open
OpenLeds == {leds[c].fd : c \in 0..(NLEDS - 1)} \cap os.open

\* C12: a process that died from a signal it had a handler for, and that
\* had been granted the lines, died after a teardown() of the handler had
\* returned, with every brightness 0, a whole all-zero frame as the last
\* frame, the line request released and every channel descriptor closed.
C12_TeardownWholeBeforeDeath ==
    (proc.state = "killed" /\ hw.held # "none") =>
        /\ hist.td_by_handler >= 1
        /\ hist.td_done >= 1
        /\ \A c \in 0..(NLEDS - 1) : leds[c].brightness = 0
        /\ ZeroFrame
        /\ hw.held = "released"
        /\ OpenLeds = {}

\* a frame for the all-zero vector has returned for the profile named id
ZeroFrameOf(id) ==
    /\ Selected
    /\ supported_hardware[dev].id = id
    /\ hist.done
    /\ hist.vec = ZeroVec

\* C13 as claimed: a frame of "cisco-mx100-hw" for [0,0,0] is 48 pulses of
\* data 0, no commit with the latch line high, and the 600 us hold between
\* the two commits of the 48th bit.
C13_CiscoZeroFrameEndsWithHold ==
    ZeroFrameOf("cisco-mx100-hw") =>
        /\ LET db == DataBits
           IN  Len(db) = 48 /\ \A j \in 1..48 : db[j] = 0
        /\ \A p \in 1..Len(hist.log) :
              IsCommit(hist.log[p]) => hist.log[p].lei = 0
        /\ Len(hist.log) = 97
        /\ IsHold(hist.log[96])

\* C13 amended: a frame of "cisco-mx100-hw" for [0,0,0] is 48 pulses of
\* data 0 (96 clock commits), then one commit with the latch line high and
\* one with the latch line low, and no 600 us hold.
C13_CiscoZeroFrameEndsWithLatch ==
    ZeroFrameOf("cisco-mx100-hw") =>
        /\ LET db == DataBits
           IN  Len(db) = 48 /\ \A j \in 1..48 : db[j] = 0
        /\ \A p \in 1..Len(hist.log) : ~IsHold(hist.log[p])
        /\ Len(hist.log) = 98
        /\ \A p \in 1..96 : hist.log[p].cki = p % 2
        /\ hist.log[97].cki = 0 /\ hist.log[97].lei = 1
        /\ hist.log[98].cki = 0 /\ hist.log[98].lei = 0

\* the serve loop has encoded one frame for [0,0,0] on "cisco-mx100-hw"
\* and is back in select()
C13_Witness ==
    /\ ZeroFrameOf("cisco-mx100-hw")
    /\ proc.state = "running"
    /\ stack[1].pc = "select"
    /\ hist.frames = 1
    /\ Len(hist.log) = 98

\* a frame for the vector [255,128,0] has returned for "meraki,z1"
Z1Frame ==
    /\ Selected
    /\ supported_hardware[dev].id = "meraki,z1"
    /\ hist.done
    /\ hist.vec = (0 :> 255 @@ 1 :> 128 @@ 2 :> 0)

\* the three words of the frame are 0xFF00, 0x8000, 0x0000, in the order
\* of the channels
Z1Words ==
    /\ Len(DataBits) = 48
    /\ SentWord(0) = 65280
    /\ SentWord(1) = 32768
    /\ SentWord(2) = 0

\* C14 as claimed: a frame of "meraki,z1" for [255,128,0] sends the words
\* 0xFF00, 0x8000, 0x0000, then commits the latch line high and then low,
\* and has no 600 us hold.
C14_Z1FrameEndsWithLatch ==
    Z1Frame =>
        /\ Z1Words
        /\ \A p \in 1..Len(hist.log) : ~IsHold(hist.log[p])
        /\ Len(hist.log) = 98
        /\ hist.log[97].lei = 1
        /\ hist.log[98].lei = 0

\* C14 amended: a frame of "meraki,z1" for [255,128,0] sends the words
\* 0xFF00, 0x8000, 0x0000, holds the clock high for 600 us between the two
\* commits of the 48th bit, and never commits the latch line high.
C14_Z1FrameEndsWithHold ==
    Z1Frame =>
        /\ Z1Words
        /\ Len(hist.log) = 97
        /\ \A p \in 1..97 : IsHold(hist.log[p]) <=> p = 96
        /\ hist.log[95].cki = 1
        /\ hist.log[97].cki = 0
        /\ \A p \in 1..97 : IsCommit(hist.log[p]) => hist.log[p].lei = 0

\* the serve loop has encoded the frame for [255,128,0] on "meraki,z1"
\* and is back in select()
C14_Witness ==
    /\ Z1Frame
    /\ proc.state = "running"
    /\ stack[1].pc = "select"
    /\ SentWord(0) = 65280
    /\ Len(hist.log) = 97

\* the device-id given is the id of no catalog entry
UnknownId ==
    /\ argv # NoArg
    /\ \A n \in 1..(Len(supported_hardware) - 1) :
          supported_hardware[n].id # argv

\* C15: with a device-id that equals no catalog id, no descriptor is ever
\* opened, the lines are never requested, no frame is encoded and no
\* commit made, teardown() releases and closes nothing, and the process
\* exits after exactly one teardown().
C15_UnknownIdAcquiresNothing ==
    UnknownId =>
        /\ os.open = {}
        /\ \A c \in 0..(NLEDS - 1) : leds[c].fd = 0
        /\ hw.held = "none" /\ gpio_fd = 0
        /\ hist.frames = 0 /\ hist.log = << >>
        /\ hw.n_release = 0
        /\ os.closes = << >>
        /\ (proc.state = "running" =>
               stack[1].pc \in {"start", "lookup", "out", "exit"})
        /\ (proc.state = "exited" => hist.td_done = 1)

\* a process started with a proper prefix of a catalog id has exited
\* after its teardown()
C15_Witness ==
    /\ argv = "meraki,z"
    /\ proc.state = "exited"
    /\ proc.status = EXIT_FAILURE
    /\ hist.td_done = 1

\* the descriptors of the registered channels
LedFds == {leds[c].fd : c \in 0..(num_leds - 1)}

\* main is back at select() after a wake-up in which no read failed
BackInSelect ==
    /\ proc.state = "running"
    /\ stack[1].pc = "select"
    /\ os.wakeups > 0
    /\ hist.failed_read = 0

\* C16: during a wake-up only descriptors that select() reported are read,
\* each at most once; when main is back at select() after a wake-up
\* without a failed read, each reported descriptor has been read exactly
\* once and its channel holds the value read, one frame per wake-up has
\* been encoded and the last one covers the 16*num_leds bits of the
\* current brightness vector, and rfds holds every channel descriptor.
C16_WakeupReadsReadyOnceThenOneFrame ==
    /\ \A p \in 1..Len(hist.reads) :
          /\ hist.reads[p] \in os.ready
          /\ \A q \in 1..(p - 1) : hist.reads[q] # hist.reads[p]
    /\ BackInSelect =>
          /\ {hist.reads[p] : p \in 1..Len(hist.reads)} = os.ready
          /\ Len(hist.got) = Len(hist.reads)
          /\ \A p \in 1..Len(hist.got) :
                /\ leds[hist.got[p].led].fd = hist.reads[p]
                /\ leds[hist.got[p].led].brightness = hist.got[p].val
          /\ hist.frames = os.wakeups
          /\ hist.done
          /\ hist.vec = [c \in 0..(NLEDS - 1) |-> leds[c].brightness]
          /\ Len(DataBits) = 16 * num_leds
          /\ rfds = LedFds

\* main is back at select() after a wake-up in which only the second
\* channel was ready and was set to 128
C16_Witness ==
    /\ BackInSelect
    /\ num_leds = 3
    /\ os.ready = {leds[1].fd}
    /\ hist.got = << [led |-> 1, val |-> 128] >>
    /\ hist.vec = (0 :> 0 @@ 1 :> 128 @@ 2 :> 0)
    /\ Cardinality(rfds) = 3

\* main is inside the handle_leds() call of the serve loop
ServeFrame ==
    /\ proc.state = "running"
    /\ stack[1].pc \in HlPcs
    /\ ~stack[1].td

EndedWithLines ==
    /\ proc.state \in {"exited", "killed"}
    /\ hw.held # "none"

\* C18: gpiotools_release_line() is never called twice, no gpio_commit()
\* is made on the line request after its release, and a process that ends
\* after the lines were granted has released them exactly once.
C18_ReleasedExactlyOnce ==
    /\ hw.n_release <= 1
    /\ hw.late_commits = 0
    /\ EndedWithLines => hw.n_release = 1 /\ hw.held = "released"

\* C19: after register_uled() has failed for channel k, no later channel
\* is registered, the lines are never requested, no frame is encoded, no
\* descriptor is closed twice, only descriptors that were opened are
\* closed, and a process that has exited has closed each of them (k of
\* them, one more after a failed write) and left none open.
C19_PartialRegistrationClosed ==
    hist.uled_fail # "none" =>
        LET k == stack[1].mi
        IN  /\ \A c \in (k + 1)..(NLEDS - 1) : leds[c].fd = 0
            /\ hist.uled_fail = "open" => leds[k].fd = -1
            /\ num_leds = 0
            /\ hw.held = "none" /\ gpio_fd = 0
            /\ hist.frames = 0 /\ hist.log = << >>
            /\ \A p \in 1..Len(os.closes) :
                  /\ os.closes[p] >= FIRST_FD
                  /\ \A q \in 1..(p - 1) : os.closes[q] # os.closes[p]
            /\ proc.state = "exited" =>
                  /\ os.open = {}
                  /\ Len(os.closes)
                        = k + (IF hist.uled_fail = "write" THEN 1 ELSE 0)
                  /\ \A c \in 0..(NLEDS - 1) : leds[c].fd <= 0
                  /\ hist.td_done = 1

\* the write for the second channel failed and the process has exited
\* after closing both descriptors
C19_Witness ==
    /\ hist.uled_fail = "write"
    /\ stack[1].mi = 1
    /\ proc.state = "exited"
    /\ os.closes = << FIRST_FD, FIRST_FD + 1 >>

\* the open for the third channel failed and the process has exited after
\* closing the two descriptors of the channels before it
C19_WitnessOpen ==
    /\ hist.uled_fail = "open"
    /\ stack[1].mi = 2
    /\ proc.state = "exited"
    /\ os.closes = << FIRST_FD, FIRST_FD + 1 >>

\* main is blocked in select()
Idle ==
    /\ proc.state = "running"
    /\ Len(stack) = 1
    /\ stack[1].pc = "select"

\* the 48 bits of the current brightness vector, first bit sent first
VectorBits ==
    [j \in 1..CHIP_BITS |->
        WordBit(hw_word(leds[(j - 1) \div 16].brightness), ((j - 1) % 16) + 1)]

\* C20: whenever main is blocked in select(), the chip's latched outputs
\* are the bits of the current brightness vector, the clock line is low
\* and, for a profile with a latch line, the latch line is low.
C20_IdleMeansLatchedCurrentVector ==
    Idle =>
        /\ hw.latched = VectorBits
        /\ hw.wire[NU801_CKI] = 0
        /\ HasLatch(supported_hardware[dev]) => hw.wire[NU801_LEI] = 0
============================================================================
